---------------------------- MODULE Spec2Model ----------------------------
(***************************************************************************)
(* A model of the repository sampling and prioritisation pipeline of       *)
(* github_refactor_analyzer.py: the skip rules, the complexity score, the  *)
(* reference pattern, the recursive content walker and the                 *)
(* classify / rank / limit / fetch stages of                               *)
(* fetch_repository_for_refactoring.                                       *)
(*                                                                         *)
(* Python strings are TLA+ strings; a character is a string of length 1.   *)
(***************************************************************************)
EXTENDS Integers, Sequences, FiniteSets, TLC

VARIABLES
    \* should_skip_file_for_refactoring(path, include_tests), called on its own
    sk_path, sk_include_tests, sk_done, sk_ret,
    \* get_file_complexity_score(content, file_type), called on its own
    sc_content, sc_file_type, sc_calls, sc_score, sc_prev_score, sc_prev_content,
    \* validate_repository and fetch_repository_for_refactoring
    pc,                \* where the running call stands
    op,                \* the function that was called
    github_url,        \* its argument
    options,           \* its argument (fetch_repository_for_refactoring)
    ref,               \* match.groups(): owner and repo_name
    calls,             \* the remote calls issued so far, with what each came to
    stack,             \* the frames of fetch_repository_contents_recursive
    all_files,         \* what the walker returned
    structure,         \* the payload under construction
    files_to_analyze,  \* the candidates, then ranked, then limited
    fetch_i,           \* the position of the content loop in files_to_analyze
    result,            \* what the call returned or raised
    failures,          \* the remote calls that failed so far
    \* fetch_repository_for_refactoring called a second time in one process
    run,               \* 1 in the first call, 2 in the second
    first,             \* the remote calls and the result of the first call
    \* generate_refactor_suggestions(repo_structure, analysis_options, repo_info),
    \* called on its own
    g_outcome,         \* what the call of the generator comes to
    g_calls,           \* 0 before the call, 1 after it
    g_ret,             \* what the function returned or raised
    \* main() of app.py: one run of the script per press of the Analyze button
    app_pc,            \* where the run stands
    app_input,         \* the widgets' values in this run
    repo_info,         \* what validate_repository returned to the run
    session_state,     \* st.session_state, kept from run to run
    session_at_press,  \* st.session_state as it was when the button was pressed
    gen_calls          \* the generator calls of this run

skipVars  == <<sk_path, sk_include_tests, sk_done, sk_ret>>
scoreVars == <<sc_content, sc_file_type, sc_calls, sc_score, sc_prev_score, sc_prev_content>>
pipeVars  == <<pc, op, github_url, options, ref, calls, stack, all_files, structure,
               files_to_analyze, fetch_i, result, failures>>
rerunVars == <<run, first>>
genVars   == <<g_outcome, g_calls, g_ret>>
appVars   == <<app_pc, app_input, repo_info, session_state, session_at_press, gen_calls>>
callerVars == <<rerunVars, genVars, appVars>>
vars      == <<skipVars, scoreVars, pipeVars, callerVars>>

----------------------------------------------------------------------------
(* Strings                                                                 *)

Min(a, b) == IF a <= b THEN a ELSE b

CharAt(s, i) == SubSeq(s, i, i)

\* str.lower() on one ASCII character
LowerMap ==
    [A |-> "a", B |-> "b", C |-> "c", D |-> "d", E |-> "e", F |-> "f", G |-> "g",
     H |-> "h", I |-> "i", J |-> "j", K |-> "k", L |-> "l", M |-> "m", N |-> "n",
     O |-> "o", P |-> "p", Q |-> "q", R |-> "r", S |-> "s", T |-> "t", U |-> "u",
     V |-> "v", W |-> "w", X |-> "x", Y |-> "y", Z |-> "z"]

LowerChar(c) == IF c \in DOMAIN LowerMap THEN LowerMap[c] ELSE c

\* str.lower(): every character lowered, by halves to keep the recursion shallow
RECURSIVE Lower(_)
Lower(s) ==
    IF Len(s) = 0 THEN ""
    ELSE IF Len(s) = 1 THEN LowerChar(s)
    ELSE LET h == Len(s) \div 2
         IN  Lower(SubSeq(s, 1, h)) \o Lower(SubSeq(s, h + 1, Len(s)))

\* the positions at which sub occurs in s
Occurrences(s, sub) ==
    {i \in 1..(Len(s) - Len(sub) + 1) : SubSeq(s, i, i + Len(sub) - 1) = sub}

\* Python's `sub in s`
Contains(s, sub) == Occurrences(s, sub) /= {}

\* str.endswith(suffix)
EndsWith(s, suffix) ==
    /\ Len(suffix) <= Len(s)
    /\ SubSeq(s, Len(s) - Len(suffix) + 1, Len(s)) = suffix

SetMin(S) == CHOOSE m \in S : \A x \in S : m <= x
SetMax(S) == CHOOSE m \in S : \A x \in S : m >= x

\* str.count(sub): the occurrences found scanning left to right, each search
\* resuming after the end of the previous occurrence (non-overlapping); occ is
\* the set of positions at which sub occurs, width its length
RECURSIVE CountFrom(_, _, _)
CountFrom(occ, width, from) ==
    LET later == {i \in occ : i >= from}
    IN  IF later = {} THEN 0
        ELSE 1 + CountFrom(later, width, SetMin(later) + width)

Count(s, sub) == CountFrom(Occurrences(s, sub), Len(sub), 1)

\* u repeated n times
RECURSIVE Repeat(_, _)
Repeat(u, n) ==
    IF n <= 0 THEN ""
    ELSE IF n = 1 THEN u
    ELSE LET half == Repeat(u, n \div 2)
         IN  IF n % 2 = 0 THEN half \o half ELSE half \o half \o u

----------------------------------------------------------------------------
(* The fixed sets of the module                                            *)

SKIP_REFACTOR_PATTERNS ==
    {".git", ".github", ".vscode", ".idea", "node_modules", "__pycache__",
     "dist", "build", "target", "coverage", ".coverage", ".pytest_cache",
     ".tox", "venv", "env", ".env", "logs", "tmp", "temp", ".DS_Store",
     "vendor", "public/assets", "static/assets", "assets/images"}

TEST_PATTERNS ==
    {"test", "tests", "__tests__", "spec", "specs", ".test.", ".spec.",
     "_test.", "_spec.", "test_", "spec_"}

BINARY_SUFFIXES ==
    {".png", ".jpg", ".jpeg", ".gif", ".svg", ".ico",
     ".pdf", ".zip", ".tar", ".gz", ".exe", ".dmg",
     ".app", ".deb", ".rpm", ".msi", ".woff", ".woff2",
     ".ttf", ".otf", ".mp3", ".mp4", ".avi", ".mov"}

----------------------------------------------------------------------------
(* should_skip_file_for_refactoring                                        *)

\* the check with the test markers applied whatever include_tests
should_skip_file_for_refactoring_any_tests(path, include_tests) ==
    LET path_lower == Lower(path)
    IN  IF \E skip_pattern \in SKIP_REFACTOR_PATTERNS : Contains(path_lower, skip_pattern)
        THEN TRUE
        ELSE IF \E test_pattern \in TEST_PATTERNS : Contains(path_lower, test_pattern)
        THEN TRUE
        ELSE IF \E suffix \in BINARY_SUFFIXES : EndsWith(path_lower, suffix)
        THEN TRUE
        ELSE FALSE

should_skip_file_for_refactoring(path, include_tests) ==
    LET path_lower == Lower(path)
    IN  IF \E skip_pattern \in SKIP_REFACTOR_PATTERNS : Contains(path_lower, skip_pattern)
        THEN TRUE
        ELSE IF ~include_tests
                /\ \E test_pattern \in TEST_PATTERNS : Contains(path_lower, test_pattern)
        THEN TRUE
        ELSE IF \E suffix \in BINARY_SUFFIXES : EndsWith(path_lower, suffix)
        THEN TRUE
        ELSE FALSE

----------------------------------------------------------------------------
(* get_file_complexity_score                                               *)

\* len(content.split('\n')): one more than the number of newline characters
LineCount(content) ==
    Cardinality({i \in 1..Len(content) : CharAt(content, i) = "\n"}) + 1

\* "Base score on file length": min(len(lines) // 10, 50)
LengthScore_wraps(content) == (LineCount(content) \div 10) % 50

LengthScore(content) == Min(LineCount(content) \div 10, 50)

\* str.lstrip('.')
RECURSIVE LStripDots(_)
LStripDots(s) ==
    IF Len(s) > 0 /\ CharAt(s, 1) = "." THEN LStripDots(SubSeq(s, 2, Len(s))) ELSE s

complexity_patterns ==
    [js   |-> <<"function", "class", "if", "for", "while", "switch", "try", "catch">>,
     ts   |-> <<"function", "class", "interface", "if", "for", "while", "switch", "try", "catch">>,
     py   |-> <<"def ", "class ", "if ", "for ", "while ", "try:", "except:", "lambda">>,
     java |-> <<"public class", "private", "protected", "if", "for", "while", "switch", "try", "catch">>,
     cpp  |-> <<"class", "struct", "if", "for", "while", "switch", "try", "catch">>,
     cs   |-> <<"class", "struct", "interface", "if", "for", "while", "switch", "try", "catch">>]

default_patterns == <<"function", "class", "if", "for", "while">>

\* complexity_patterns.get(ext, [...]) with ext = file_type.lstrip('.')
PatternsFor(file_type) ==
    LET ext == LStripDots(file_type)
    IN  IF ext \in DOMAIN complexity_patterns THEN complexity_patterns[ext]
        ELSE default_patterns

\* the loop `for pattern in patterns: score += content_lower.count(pattern.lower()) * 2`
KeywordScore_once(content, file_type) ==
    LET patterns      == PatternsFor(file_type)
        content_lower == Lower(content)
        Acc[k \in 0..Len(patterns)] ==
            IF k = 0 THEN 0
            ELSE Acc[k - 1]
                 + (IF Contains(content_lower, Lower(patterns[k])) THEN 1 ELSE 0) * 2
    IN  Acc[Len(patterns)]

KeywordScore(content, file_type) ==
    LET patterns      == PatternsFor(file_type)
        content_lower == Lower(content)
        Acc[k \in 0..Len(patterns)] ==
            IF k = 0 THEN 0
            ELSE Acc[k - 1] + Count(content_lower, Lower(patterns[k])) * 2
    IN  Acc[Len(patterns)]

get_file_complexity_score_uncapped(content, file_type) ==
    LengthScore(content) + KeywordScore(content, file_type)

get_file_complexity_score(content, file_type) ==
    Min(LengthScore(content) + KeywordScore(content, file_type), 100)

----------------------------------------------------------------------------
(* should_skip_file_for_refactoring called on its own                      *)

UpperChar(c) ==
    IF \E u \in DOMAIN LowerMap : LowerMap[u] = c
    THEN CHOOSE u \in DOMAIN LowerMap : LowerMap[u] = c
    ELSE c

RECURSIVE Upper(_)
Upper(s) ==
    IF Len(s) = 0 THEN ""
    ELSE IF Len(s) = 1 THEN UpperChar(s)
    ELSE LET h == Len(s) \div 2
         IN  Upper(SubSeq(s, 1, h)) \o Upper(SubSeq(s, h + 1, Len(s)))

\* path fragments that are neither a skip pattern nor a test marker ("latest"
\* has the marker "test" inside it)
CleanFragments == {"main", "latest", "README", "app"}

\* the paths handed to should_skip_file_for_refactoring: a skip pattern, a test
\* marker or a clean fragment, as written, upper-cased or lower-cased, inside a
\* directory or not, with one of several extensions
SkipPaths ==
    {pre \o mid \o suf :
        pre \in {"", "src/"},
        mid \in UNION {{f, Upper(f), Lower(f)} :
                          f \in SKIP_REFACTOR_PATTERNS \cup TEST_PATTERNS \cup CleanFragments},
        suf \in {"", ".py", "/a.js", ".PNG"}}

IdleSkip ==
    /\ sk_path = ""
    /\ sk_include_tests = FALSE
    /\ sk_done = FALSE
    /\ sk_ret = FALSE

SkipInit ==
    /\ sk_path \in SkipPaths
    /\ sk_include_tests \in BOOLEAN
    /\ sk_done = FALSE
    /\ sk_ret = FALSE

SkipCall ==
    /\ ~sk_done
    /\ sk_ret' = should_skip_file_for_refactoring(sk_path, sk_include_tests)
    /\ sk_done' = TRUE
    /\ UNCHANGED <<sk_path, sk_include_tests, scoreVars, pipeVars, callerVars>>

----------------------------------------------------------------------------
(* get_file_complexity_score called on its own                             *)

MaxKeywordLines == 52
MaxPlainLines == 500

KeywordLines == {"def f():\n", "class A:\n", "IF x:\n", "function g() {}\n"}

\* 30 lines of Python with three `def ` and one `class `
ScenarioContent == Repeat("def f():\n", 3) \o "class A:\n" \o Repeat("x = 1\n", 25) \o "x = 1"

ScoreContents ==
    {Repeat(kl, k) \o Repeat("\n", n) :
        kl \in KeywordLines,
        k \in {0, 1, 3, MaxKeywordLines - 1, MaxKeywordLines},
        n \in {0, 8, 9, 26, 250, MaxPlainLines - 1, MaxPlainLines}}
    \cup {ScenarioContent}

ScoreFileTypes == {".py", ".js", ".md", "py"}

IdleScore ==
    /\ sc_content = ""
    /\ sc_file_type = ""
    /\ sc_calls = 0
    /\ sc_score = 0
    /\ sc_prev_score = 0
    /\ sc_prev_content = ""

ScoreInit ==
    /\ sc_content \in ScoreContents
    /\ sc_file_type \in ScoreFileTypes
    /\ sc_calls = 0
    /\ sc_score = 0
    /\ sc_prev_score = 0
    /\ sc_prev_content = ""

\* sc_calls counts the calls made; sc_score is what the last one returned
ScoreCall ==
    /\ sc_calls = 0
    /\ sc_score' = get_file_complexity_score(sc_content, sc_file_type)
    /\ sc_calls' = 1
    /\ UNCHANGED <<sc_content, sc_file_type, sc_prev_score, sc_prev_content>>
    /\ UNCHANGED <<skipVars, pipeVars, callerVars>>

\* the same content with more (empty) lines, scored again: its line count
\* doubled, or one line more
ScoreLonger ==
    /\ sc_calls = 1
    /\ \E extra \in {1, LineCount(sc_content)} :
          sc_content' = sc_content \o Repeat("\n", extra)
    /\ sc_prev_content' = sc_content
    /\ sc_prev_score' = sc_score
    /\ sc_score' = get_file_complexity_score(sc_content', sc_file_type)
    /\ sc_calls' = 2
    /\ UNCHANGED <<sc_file_type, skipVars, pipeVars, callerVars>>

----------------------------------------------------------------------------
(* The repository reference pattern                                        *)
(*     github\.com/([^/]+)/([^/]+?)(?:\.git)?/?$      used with re.search  *)

NoMatch == [matched |-> FALSE]

\* what may follow the (lazy) repository group: (?:\.git)?/?$ , where $ also
\* matches just before a final newline
RefTails == {"", ".git", "/", ".git/", "\n", ".git\n", "/\n", ".git/\n"}

\* the match of ([^/]+)/([^/]+?)(?:\.git)?/?$ against rest, the text that
\* follows one occurrence of "github.com/"
MatchAfterHost(rest) ==
    LET slashes == Occurrences(rest, "/")
    IN  IF slashes = {} \/ SetMin(slashes) = 1 THEN NoMatch
        ELSE LET k     == SetMin(slashes)
                 owner == SubSeq(rest, 1, k - 1)
                 tail  == SubSeq(rest, k + 1, Len(rest))
                 lens  == {m \in 1..Len(tail) :
                              /\ ~Contains(SubSeq(tail, 1, m), "/")
                              /\ SubSeq(tail, m + 1, Len(tail)) \in RefTails}
             IN  IF lens = {} THEN NoMatch
                 ELSE [matched |-> TRUE, owner |-> owner,
                       repo_name |-> SubSeq(tail, 1, SetMin(lens))]

\* the $ anchor dropped: anything may follow the repository name
MatchRef_unanchored(url) ==
    LET starts == {i \in Occurrences(url, "github.com/") :
                      LET rest == SubSeq(url, i + 11, Len(url))
                          slashes == Occurrences(rest, "/")
                      IN  /\ slashes /= {}
                          /\ SetMin(slashes) > 1
                          /\ SetMin(slashes) < Len(rest)
                          /\ CharAt(rest, SetMin(slashes) + 1) /= "/"}
    IN  IF starts = {} THEN NoMatch
        ELSE LET rest == SubSeq(url, SetMin(starts) + 11, Len(url))
                 k    == SetMin(Occurrences(rest, "/"))
             IN  [matched |-> TRUE, owner |-> SubSeq(rest, 1, k - 1),
                  repo_name |-> CharAt(rest, k + 1)]

\* re.search(pattern, url): the leftmost position at which the pattern
\* matches; owner and repo_name are match.groups()
MatchRef(url) ==
    LET starts == {i \in Occurrences(url, "github.com/") :
                      MatchAfterHost(SubSeq(url, i + 11, Len(url))).matched}
    IN  IF starts = {} THEN NoMatch
        ELSE MatchAfterHost(SubSeq(url, SetMin(starts) + 11, Len(url)))

\* references of the github.com/owner/repo shape
WellFormedURLs ==
    {"https://github.com/octo/repo",
     "https://github.com/octo/repo.git/",
     "github.com/octo/repo.git"}

\* references that are not of that shape
MalformedURLs ==
    {"",
     "octo/repo",
     "https://github.com/octo",
     "https://github.com/octo/",
     "https://github.com//repo",
     "https://gitlab.com/octo/repo",
     "https://githubXcom/octo/repo",
     "https://github.com/octo/repo/tree/main",
     "https://github.com/octo/repo.git//"}

URLs == WellFormedURLs \cup MalformedURLs

\* the references handed to fetch_repository_for_refactoring
FetchURLs == MalformedURLs \cup {"https://github.com/octo/repo.git/"}

----------------------------------------------------------------------------
(* Classification tables                                                   *)

REFACTOR_EXTENSIONS ==
    {".py", ".js", ".ts", ".jsx", ".tsx", ".mjs", ".cjs", ".java", ".cpp", ".c", ".h",
     ".cs", ".php", ".rb", ".go", ".rs", ".swift", ".kt", ".scala",
     ".html", ".css", ".scss", ".sass", ".less", ".styl", ".vue", ".svelte",
     ".json", ".xml", ".yaml", ".yml", ".toml", ".cfg", ".sql"}

PRIORITY_REFACTOR_FILES ==
    {"package.json", "requirements.txt", "cargo.toml", "pom.xml",
     "build.gradle", "gemfile", "composer.json", "setup.py",
     "webpack.config.js", "vite.config.js", "rollup.config.js",
     "tsconfig.json", "babel.config.js", ".eslintrc.js", ".eslintrc.json",
     "dockerfile", "makefile", "gruntfile.js", "gulpfile.js"}

CONFIG_EXTENSIONS == {".json", ".yaml", ".yml", ".toml"}

\* os.path.splitext(file_name)[1] for a name without directory separators: the
\* text from the last dot on, unless only dots precede that dot
SplitExt(file_name) ==
    LET dots == Occurrences(file_name, ".")
    IN  IF dots = {} THEN ""
        ELSE LET last == SetMax(dots)
             IN  IF \E j \in 1..(last - 1) : CharAt(file_name, j) /= "."
                 THEN SubSeq(file_name, last, Len(file_name))
                 ELSE ""

\* dict.get(key, default)
Get(d, key, default) == IF key \in DOMAIN d THEN d[key] ELSE default

\* d[key] = value
Put(d, key, value) ==
    [k \in DOMAIN d \cup {key} |-> IF k = key THEN value ELSE d[k]]

EmptyDict == [k \in {} |-> 0]

\* str(n) for n >= 0
Digits == <<"0", "1", "2", "3", "4", "5", "6", "7", "8", "9">>

RECURSIVE IntToStr(_)
IntToStr(n) ==
    IF n < 10 THEN Digits[n + 1]
    ELSE IntToStr(n \div 10) \o Digits[(n % 10) + 1]

----------------------------------------------------------------------------
(* The remote repository host                                              *)

RawBase == "https://raw.githubusercontent.com/octo/repo/main/"

FileEntry(path, name, size) ==
    [type |-> "file", path |-> path, name |-> name, size |-> size,
     download_url |-> RawBase \o path]

DirEntry(path, name) ==
    [type |-> "dir", path |-> path, name |-> name, size |-> 0,
     download_url |-> ""]

\* an entry that is neither a file nor a directory
LinkEntry(path, name) ==
    [type |-> "symlink", path |-> path, name |-> name, size |-> 7,
     download_url |-> RawBase \o path]

\* GET /repos/octo/repo/contents/{path}: the listing of each directory
RepoTree ==
    [p \in {"", "src", "src/core", "node_modules", "node_modules/pkg", "lib", "tests"} |->
        CASE p = "" ->
                <<FileEntry("package.json", "package.json", 500),
                  DirEntry("src", "src"),
                  DirEntry("node_modules", "node_modules"),
                  DirEntry("lib", "lib"),
                  DirEntry("tests", "tests"),
                  FileEntry("build.gradle", "build.gradle", 700),
                  FileEntry("Dockerfile", "Dockerfile", 200)>>
          [] p = "src" ->
                <<FileEntry("src/a.py", "a.py", 9000),
                  DirEntry("src/core", "core"),
                  FileEntry("src/b.py", "b.py", 100)>>
          [] p = "src/core" ->
                <<FileEntry("src/core/c.ts", "c.ts", 100)>>
          [] p = "node_modules" ->
                <<FileEntry("node_modules/x.js", "x.js", 50),
                  DirEntry("node_modules/pkg", "pkg")>>
          [] p = "node_modules/pkg" ->
                <<FileEntry("node_modules/pkg/y.js", "y.js", 40)>>
          [] p = "lib" ->
                <<FileEntry("lib/guide.md", "guide.md", 300),
                  FileEntry("lib/logo.png", "logo.png", 400),
                  LinkEntry("lib/current.py", "current.py"),
                  FileEntry("lib/latest.py", "latest.py", 100),
                  FileEntry("lib/.DS_Store.json", ".DS_Store.json", 10)>>
          [] p = "tests" ->
                <<FileEntry("tests/util.py", "util.py", 60)>>]

\* what one remote call can come to: a response with a status, or a transport
\* fault raised by github_session.get
Fault == [fault |-> TRUE, status |-> 0]
Response(status) == [fault |-> FALSE, status |-> status]

ListingOutcomes == {Response(200), Response(404), Fault}
RawOutcomes     == {Response(200), Response(404), Fault}
LookupOutcomes  == {Response(200), Response(403), Response(404), Response(500), Fault}

\* response.json() of the repository lookup: the full record, a record with
\* every optional key missing, or a body that is not JSON
FullRepoData ==
    [full_name |-> "octo/repo", description |-> "demo", language |-> "Python",
     stargazers_count |-> 5, forks_count |-> 1, default_branch |-> "trunk"]

LookupBodies == {[json_ok |-> TRUE, data |-> FullRepoData],
                 [json_ok |-> TRUE, data |-> EmptyDict],
                 [json_ok |-> FALSE, data |-> EmptyDict]}

\* response.text of a raw content fetch
FileContents == {"x = 1\n", Repeat("if ", 25), Repeat("if ", 51)}

----------------------------------------------------------------------------
(* fetch_repository_contents_recursive                                     *)

\* one invocation: its path argument, the listing it got, the position of its
\* loop over the listing, and its all_files
Frame(path) == [path |-> path, contents |-> <<>>, i |-> 1, all_files |-> <<>>]

Range(seq) == {seq[i] : i \in DOMAIN seq}

Top(stk) == stk[Len(stk)]
Pop(stk) == SubSeq(stk, 1, Len(stk) - 1)
SetTop(stk, frame) == [stk EXCEPT ![Len(stk)] = frame]

\* Runs the invocations of stk up to the next remote call. Continue runs the
\* loop of the top frame: a file is appended, a directory that is not skipped
\* starts a recursive invocation (whose first statement is its remote call), any
\* other entry is passed over; at the end of the listing the frame returns its
\* all_files. Return hands sub_files to the caller, which extends its all_files
\* and goes on with its loop. The value is [stack, done, ret].
\* a directory that is entered whatever its path
SkipsDirectory_never(item) == FALSE

\* should_skip_file_for_refactoring(item['path']): include_tests takes its
\* default
SkipsDirectory(item) == should_skip_file_for_refactoring(item.path, FALSE)

RECURSIVE Continue(_), Return(_, _)
Continue(stk) ==
    LET f == Top(stk)
    IN  IF f.i > Len(f.contents) THEN Return(Pop(stk), f.all_files)
        ELSE LET item == f.contents[f.i]
             IN  IF item.type = "file"
                 THEN Continue(SetTop(stk, [f EXCEPT !.all_files = Append(@, item),
                                                     !.i = @ + 1]))
                 ELSE IF item.type = "dir" /\ ~SkipsDirectory(item)
                 THEN [stack |-> Append(stk, Frame(item.path)), done |-> FALSE, ret |-> <<>>]
                 ELSE Continue(SetTop(stk, [f EXCEPT !.i = @ + 1]))

Return(stk, sub_files) ==
    IF stk = <<>> THEN [stack |-> <<>>, done |-> TRUE, ret |-> sub_files]
    ELSE LET f == Top(stk)
         IN  Continue(SetTop(stk, [f EXCEPT !.all_files = @ \o sub_files, !.i = @ + 1]))

\* a failed listing that is not caught in the invocation it happened in: the
\* whole enumeration comes to nothing
ListingFailed_aborts(stk) == [stack |-> <<>>, done |-> TRUE, ret |-> <<>>]

\* a failed listing that the invocation asks for again
ListingFailed_relists(stk) == [stack |-> stk, done |-> FALSE, ret |-> <<>>]

\* status_code != 200, or an exception caught by the invocation's own
\* `except`: this invocation returns []
ListingFailed(stk) == Return(Pop(stk), <<>>)

\* status 200: contents = response.json(), and the loop starts (the listing of
\* the root or of a directory is a list, so the wrapping of a single object
\* into a list does not come into play)
ListingSucceeded(stk) ==
    Continue(SetTop(stk, [Top(stk) EXCEPT !.contents = RepoTree[Top(stk).path]]))

ContentsUrl(path) ==
    "https://api.github.com/repos/" \o ref.owner \o "/" \o ref.repo_name
        \o "/contents/" \o path

----------------------------------------------------------------------------
(* fetch_repository_for_refactoring: classification, ranking, limit        *)

InitialStructure ==
    [files |-> <<>>,
     analyzed_files |-> EmptyDict,
     statistics |-> [total_files |-> 0, code_files |-> 0, analyzed_files |-> 0,
                     skipped_files |-> 0, languages |-> EmptyDict,
                     complexity_distribution |-> EmptyDict]]

LowerPriorityNames == {Lower(f) : f \in PRIORITY_REFACTOR_FILES}

\* is_config without the include_config option
IsConfig_always(opts, is_priority, ext) ==
    is_priority \/ ext \in CONFIG_EXTENSIONS

\* is_config = options.get('include_config', True) and (is_priority or ext in {...})
IsConfig(opts, is_priority, ext) ==
    Get(opts, "include_config", TRUE) /\ (is_priority \/ ext \in CONFIG_EXTENSIONS)

\* the loop body that leaves a file that is neither code nor configuration
\* uncounted
ClassifyOne_uncounted(acc, file_info, opts) ==
    LET file_path == file_info.path
        file_name == file_info.name
        st        == acc.structure
    IN  IF should_skip_file_for_refactoring(file_path, Get(opts, "include_tests", FALSE))
        THEN [acc EXCEPT !.structure.statistics.skipped_files = @ + 1]
        ELSE LET ext          == Lower(SplitExt(file_name))
                 is_priority  == Lower(file_name) \in LowerPriorityNames
                 is_code_file == ext \in REFACTOR_EXTENSIONS
                 is_config    == IsConfig(opts, is_priority, ext)
                 file_data    == [path |-> file_path, name |-> file_name,
                                  size |-> file_info.size, type |-> ext,
                                  download_url |-> file_info.download_url,
                                  is_priority |-> is_priority,
                                  complexity_score |-> 0]
             IN  IF ~(is_code_file \/ is_config)
                 THEN acc
                 ELSE [structure |->
                          [st EXCEPT
                             !.files = Append(@, file_data),
                             !.statistics.total_files = @ + 1,
                             !.statistics.code_files =
                                 IF is_code_file THEN @ + 1 ELSE @,
                             !.statistics.languages =
                                 IF is_code_file THEN Put(@, ext, Get(@, ext, 0) + 1)
                                 ELSE @],
                       files_to_analyze |-> Append(acc.files_to_analyze, file_data)]

\* one pass of the loop `for file_info in all_files` over the value acc of
\* [structure, files_to_analyze]
ClassifyOne(acc, file_info, opts) ==
    LET file_path == file_info.path
        file_name == file_info.name
        st        == acc.structure
    IN  IF should_skip_file_for_refactoring(file_path, Get(opts, "include_tests", FALSE))
        THEN [acc EXCEPT !.structure.statistics.skipped_files = @ + 1]
        ELSE LET ext          == Lower(SplitExt(file_name))
                 is_priority  == Lower(file_name) \in LowerPriorityNames
                 is_code_file == ext \in REFACTOR_EXTENSIONS
                 is_config    == IsConfig(opts, is_priority, ext)
                 file_data    == [path |-> file_path, name |-> file_name,
                                  size |-> file_info.size, type |-> ext,
                                  download_url |-> file_info.download_url,
                                  is_priority |-> is_priority,
                                  complexity_score |-> 0]
             IN  IF ~(is_code_file \/ is_config)
                 THEN [acc EXCEPT !.structure.statistics.skipped_files = @ + 1]
                 ELSE [structure |->
                          [st EXCEPT
                             !.files = Append(@, file_data),
                             !.statistics.total_files = @ + 1,
                             !.statistics.code_files =
                                 IF is_code_file THEN @ + 1 ELSE @,
                             !.statistics.languages =
                                 IF is_code_file THEN Put(@, ext, Get(@, ext, 0) + 1)
                                 ELSE @],
                       files_to_analyze |-> Append(acc.files_to_analyze, file_data)]

\* the loop appending to a files_to_analyze that is not made anew
ClassifyAll_keeps(st, files, opts) ==
    LET Acc[k \in 0..Len(files)] ==
            IF k = 0 THEN [structure |-> st, files_to_analyze |-> files_to_analyze]
            ELSE ClassifyOne(Acc[k - 1], files[k], opts)
    IN  Acc[Len(files)]

\* files_to_analyze = [], then the loop over all_files
ClassifyAll(st, files, opts) ==
    LET Acc[k \in 0..Len(files)] ==
            IF k = 0 THEN [structure |-> st, files_to_analyze |-> <<>>]
            ELSE ClassifyOne(Acc[k - 1], files[k], opts)
    IN  Acc[Len(files)]

\* the sort key with the size direction the wrong way round
SortKey_reversed(x, focus_large_files) ==
    <<IF x.is_priority THEN 0 ELSE 1, IF focus_large_files THEN x.size ELSE -x.size>>

\* key=lambda x: (not x['is_priority'], -x['size'])   when focus_large_files,
\* key=lambda x: (not x['is_priority'], x['size'])    otherwise; False < True
SortKey(x, focus_large_files) ==
    <<IF x.is_priority THEN 0 ELSE 1, IF focus_large_files THEN -x.size ELSE x.size>>

\* the order of Python tuples
KeyLE(a, b) == a[1] < b[1] \/ (a[1] = b[1] /\ a[2] <= b[2])

\* a sort that puts an element before the elements already placed whose key
\* equals its own
SortFiles_unstable(files, focus_large_files) ==
    LET Key(x) == SortKey(x, focus_large_files)
        Place(sorted, x) ==
            LET n == Cardinality({j \in 1..Len(sorted) :
                        KeyLE(Key(sorted[j]), Key(x)) /\ Key(sorted[j]) /= Key(x)})
            IN  SubSeq(sorted, 1, n) \o <<x>> \o SubSeq(sorted, n + 1, Len(sorted))
        S[k \in 0..Len(files)] ==
            IF k = 0 THEN <<>> ELSE Place(S[k - 1], files[k])
    IN  S[Len(files)]

\* list.sort(key=...): stable, so an element goes after every element already
\* placed whose key is not greater than its own
SortFiles(files, focus_large_files) ==
    LET Key(x) == SortKey(x, focus_large_files)
        Place(sorted, x) ==
            LET n == Cardinality({j \in 1..Len(sorted) : KeyLE(Key(sorted[j]), Key(x))})
            IN  SubSeq(sorted, 1, n) \o <<x>> \o SubSeq(sorted, n + 1, Len(sorted))
        S[k \in 0..Len(files)] ==
            IF k = 0 THEN <<>> ELSE Place(S[k - 1], files[k])
    IN  S[Len(files)]

\* the slice one long
SlicePrefix_long(seq, n) == SubSeq(seq, 1, Min(n + 1, Len(seq)))

\* the slice one short
SlicePrefix_short(seq, n) == SubSeq(seq, 1, Min(n - 1, Len(seq)))

\* seq[:n]
SlicePrefix(seq, n) ==
    IF n >= 0 THEN SubSeq(seq, 1, Min(n, Len(seq)))
    ELSE SubSeq(seq, 1, Len(seq) + n)

----------------------------------------------------------------------------
(* json.loads, on the JSON texts the model draws on: objects, arrays,      *)
(* strings without escape sequences, integers, true, false, null           *)

JsonWhitespace == {" ", "\n", "\t", "\r"}
JsonDigits == {"0", "1", "2", "3", "4", "5", "6", "7", "8", "9"}

\* the first position from i on that holds no whitespace (Len(s) + 1 at the end)
SkipWhitespace(s, i) ==
    IF i > Len(s) \/ CharAt(s, i) \notin JsonWhitespace THEN i
    ELSE SetMin({j \in i..(Len(s) + 1) : j = Len(s) + 1 \/ CharAt(s, j) \notin JsonWhitespace})

JsonError == [ok |-> FALSE, next |-> 0, value |-> [t |-> "none"]]
JsonParsed(value, next) == [ok |-> TRUE, next |-> next, value |-> value]

\* s[i] is the opening quote: the string ends at the next quote; a control
\* character or a backslash inside it is refused
JsonString(s, i) ==
    LET closing == {j \in (i + 1)..Len(s) : CharAt(s, j) = "\""}
    IN  IF closing = {} THEN JsonError
        ELSE LET j    == SetMin(closing)
                 body == SubSeq(s, i + 1, j - 1)
             IN  IF Contains(body, "\\") \/ Contains(body, "\n") \/ Contains(body, "\t")
                 THEN JsonError
                 ELSE JsonParsed([t |-> "string", v |-> body], j + 1)

RECURSIVE DigitsValue(_)
DigitsValue(d) ==
    IF d = "" THEN 0
    ELSE 10 * DigitsValue(SubSeq(d, 1, Len(d) - 1))
            + (CHOOSE n \in 0..9 : Digits[n + 1] = CharAt(d, Len(d)))

\* an integer: an optional minus, then 0 or a run of digits not starting with 0
JsonNumber(s, i) ==
    LET neg   == CharAt(s, i) = "-"
        start == IF neg THEN i + 1 ELSE i
        stop  == SetMin({j \in start..(Len(s) + 1) :
                            j = Len(s) + 1 \/ CharAt(s, j) \notin JsonDigits})
        end   == IF stop > start /\ CharAt(s, start) = "0" THEN start + 1 ELSE stop
        n     == DigitsValue(SubSeq(s, start, end - 1))
    IN  IF end = start THEN JsonError
        ELSE JsonParsed([t |-> "number", v |-> IF neg THEN -n ELSE n], end)

JsonLiterals == {[text |-> "true", value |-> [t |-> "true"]],
                 [text |-> "false", value |-> [t |-> "false"]],
                 [text |-> "null", value |-> [t |-> "null"]]}

\* the value that starts at position i (no whitespace before it), the
\* elements of an array after its [ or a comma, the members of an object
\* after its { or a comma; acc holds what was parsed of the array or object
RECURSIVE JsonValue(_, _), JsonElements(_, _, _), JsonMembers(_, _, _)
JsonValue(s, i) ==
    IF i > Len(s) THEN JsonError
    ELSE LET c == CharAt(s, i)
         IN  IF c = "\"" THEN JsonString(s, i)
             ELSE IF c = "-" \/ c \in JsonDigits THEN JsonNumber(s, i)
             ELSE IF c = "[" THEN
                 LET j == SkipWhitespace(s, i + 1)
                 IN  IF j <= Len(s) /\ CharAt(s, j) = "]"
                     THEN JsonParsed([t |-> "array", v |-> <<>>], j + 1)
                     ELSE JsonElements(s, j, <<>>)
             ELSE IF c = "{" THEN
                 LET j == SkipWhitespace(s, i + 1)
                 IN  IF j <= Len(s) /\ CharAt(s, j) = "}"
                     THEN JsonParsed([t |-> "object", v |-> <<>>], j + 1)
                     ELSE JsonMembers(s, j, <<>>)
             ELSE LET lits == {l \in JsonLiterals :
                                 SubSeq(s, i, Min(Len(s), i + Len(l.text) - 1)) = l.text}
                  IN  IF lits = {} THEN JsonError
                      ELSE LET l == CHOOSE l \in lits : TRUE
                           IN  JsonParsed(l.value, i + Len(l.text))

JsonElements(s, i, acc) ==
    LET r == JsonValue(s, i)
    IN  IF ~r.ok THEN JsonError
        ELSE LET j == SkipWhitespace(s, r.next)
             IN  IF j > Len(s) THEN JsonError
                 ELSE IF CharAt(s, j) = "]"
                 THEN JsonParsed([t |-> "array", v |-> Append(acc, r.value)], j + 1)
                 ELSE IF CharAt(s, j) = ","
                 THEN JsonElements(s, SkipWhitespace(s, j + 1), Append(acc, r.value))
                 ELSE JsonError

JsonMembers(s, i, acc) ==
    IF i > Len(s) \/ CharAt(s, i) /= "\"" THEN JsonError
    ELSE LET k == JsonString(s, i)
         IN  IF ~k.ok THEN JsonError
             ELSE LET colon == SkipWhitespace(s, k.next)
                  IN  IF colon > Len(s) \/ CharAt(s, colon) /= ":" THEN JsonError
                      ELSE LET r == JsonValue(s, SkipWhitespace(s, colon + 1))
                           IN  IF ~r.ok THEN JsonError
                               ELSE LET j    == SkipWhitespace(s, r.next)
                                        more == Append(acc, <<k.value.v, r.value>>)
                                    IN  IF j > Len(s) THEN JsonError
                                        ELSE IF CharAt(s, j) = "}"
                                        THEN JsonParsed([t |-> "object", v |-> more], j + 1)
                                        ELSE IF CharAt(s, j) = ","
                                        THEN JsonMembers(s, SkipWhitespace(s, j + 1), more)
                                        ELSE JsonError

\* json.loads(text): one value with only whitespace around it, or a
\* JSONDecodeError (ok = FALSE)
JsonLoads(text) ==
    LET r == JsonValue(text, SkipWhitespace(text, 1))
    IN  IF r.ok /\ SkipWhitespace(text, r.next) = Len(text) + 1 THEN r ELSE JsonError

----------------------------------------------------------------------------
(* The calls                                                               *)

MaxFiles == 2
MaxFailures == 2

\* the options dictionaries handed to fetch_repository_for_refactoring: every
\* key given, or max_files alone (the other defaults taken)
OptionSets ==
    {[max_files |-> n, include_tests |-> t, focus_large_files |-> f, include_config |-> c] :
        n \in 0..MaxFiles, t \in BOOLEAN, f \in BOOLEAN, c \in BOOLEAN}
    \cup {[max_files |-> n] : n \in 0..MaxFiles}

Pending     == [kind |-> "pending"]
None        == [kind |-> "None"]
Raised(e)   == [kind |-> "raised", exception |-> e]
Returned(v) == [kind |-> "value", value |-> v]

Failed(outcome) == outcome.fault \/ outcome.status /= 200

Call(kind, url, path, outcome) ==
    [kind |-> kind, url |-> url, path |-> path, outcome |-> outcome]

\* what the call of the generator comes to: an exception (from building the
\* prompt, from the client or from the service), or a response with its text
\* ("" also stands for a response without text)
GeneratorRaises(message) == [raises |-> TRUE, message |-> message, text |-> ""]
GeneratorResponds(text) == [raises |-> FALSE, message |-> "", text |-> text]

RawResponseLimit == 1000

\* the conditional taken to bind tighter than the concatenation:
\* response.text[:1000] + ("..." if len(response.text) > 1000 else response.text)
RawResponse_misparsed(text) ==
    SubSeq(text, 1, Min(Len(text), RawResponseLimit))
        \o (IF Len(text) > RawResponseLimit THEN "..." ELSE text)

\* response.text[:1000] + "..." if len(response.text) > 1000 else response.text
RawResponse(text) ==
    IF Len(text) > RawResponseLimit
    THEN SubSeq(text, 1, Min(Len(text), RawResponseLimit)) \o "..."
    ELSE text

\* generate_refactor_suggestions, given what the generator call comes to
generate_refactor_suggestions(outcome) ==
    IF outcome.raises
    THEN Returned([error |-> "Failed to generate suggestions: " \o outcome.message,
                   suggestions |-> <<>>])
    ELSE IF outcome.text = ""
    THEN Returned([error |-> "Empty response from AI service"])
    ELSE LET suggestions == JsonLoads(outcome.text)
         IN  IF suggestions.ok THEN Returned(suggestions.value)
             ELSE Returned([error |-> "Failed to parse AI response",
                            raw_response |-> RawResponse(outcome.text)])

\* the lengths of the filling of a text: short, about the limit, far beyond it
FillLengths ==
    {0, 1, 2, RawResponseLimit - 13, RawResponseLimit - 12, RawResponseLimit - 1,
     RawResponseLimit, RawResponseLimit + 1, 2 * RawResponseLimit}

ValidJsonTexts ==
    {"{}", " [] ", "{\"suggestions\": []}", "[1, -2, 0]", "null", "\"ok\"", "7",
     "{\"performance\": [{\"file\": \"a.py\", \"line\": 12}], \"done\": true}",
     "{\"a\": {\"b\": [null, false]}}\n"}
    \cup {"{\"summary\": \"" \o Repeat("x", n) \o "\"}" : n \in FillLengths}
    \cup {"[" \o Repeat(" ", n) \o "]" : n \in FillLengths}

InvalidJsonTexts ==
    {"{", "[1, 2", "[1,]", "{\"a\": 1,}", "{\"a\" 1}", "{'a': 1}", "tru", "01",
     "{} {}", "Sorry, I cannot help.", "Here is the analysis:\n{}", "\"open", "[1 2]",
     "{\"a\": }", "-", " "}
    \cup {Repeat("x", n) : n \in FillLengths \ {0}}
    \cup {"{\"summary\": \"" \o Repeat("x", n) : n \in FillLengths}
    \cup {"{\"summary\": \"" \o Repeat("x", n) \o "\"" : n \in FillLengths}

GeneratorMessages ==
    {"", "'full_name'", "503 UNAVAILABLE", "'NoneType' object has no attribute 'models'"}

GeneratorOutcomes ==
    {GeneratorRaises(m) : m \in GeneratorMessages}
    \cup {GeneratorResponds(t) : t \in {""} \cup ValidJsonTexts \cup InvalidJsonTexts}

\* the widgets of the page: the URL field, whether a Gemini key is given, the
\* analysis focus boxes and the four scope widgets
AppURLs == {"", "https://github.com/octo/repo/tree/main", "https://github.com/octo/repo.git/"}

AnalysisOptionSets ==
    {[performance |-> b, maintainability |-> b, design_patterns |-> FALSE,
      code_quality |-> FALSE, security |-> FALSE, modularity |-> FALSE] : b \in BOOLEAN}

ScopeOptionSets ==
    {o \in OptionSets : /\ DOMAIN o = {"max_files", "include_tests", "focus_large_files",
                                       "include_config"}
                        /\ o.max_files = MaxFiles
                        /\ o.focus_large_files
                        /\ ~o.include_tests}

AppInputs ==
    [github_url : AppURLs, gemini_api_key : BOOLEAN,
     analysis_options : AnalysisOptionSets, scope_options : ScopeOptionSets]

\* what the generator call of a run comes to
AppGeneratorOutcomes ==
    {GeneratorRaises("503 UNAVAILABLE"), GeneratorResponds("{\"suggestions\": []}"),
     GeneratorResponds("Sorry, I cannot help.")}

\* the page is shown and the button has not been pressed
IdleApp ==
    /\ app_pc = "shown"
    /\ app_input = [github_url |-> "", gemini_api_key |-> FALSE,
                    analysis_options |-> CHOOSE a \in AnalysisOptionSets : ~a.performance,
                    scope_options |-> CHOOSE o \in ScopeOptionSets : o.include_config]
    /\ repo_info = None
    /\ session_state = EmptyDict
    /\ session_at_press = EmptyDict
    /\ gen_calls = 0

\* the run ends at the check of repo_info whatever validate_repository returned
StopsRun_never(info) == FALSE

\* `if not repo_info:` ... `return`
StopsRun(info) == info = None

\* generate_refactor_suggestions is not called
IdleGen ==
    /\ g_outcome = GeneratorRaises("")
    /\ g_calls = 0
    /\ g_ret = Pending

GenInit ==
    /\ g_outcome \in GeneratorOutcomes
    /\ g_calls = 0
    /\ g_ret = Pending

\* generate_refactor_suggestions(repo_structure, analysis_options, repo_info)
GenCall ==
    /\ g_calls = 0
    /\ g_ret' = generate_refactor_suggestions(g_outcome)
    /\ g_calls' = 1
    /\ UNCHANGED <<g_outcome, skipVars, scoreVars, pipeVars, rerunVars, appVars>>

\* no call has returned yet
IdleRerun ==
    /\ run = 1
    /\ first = [calls |-> <<>>, result |-> Pending]

IdleCallers == IdleRerun /\ IdleGen /\ IdleApp

\* the client is the one initialize_clients set up; nothing has been called
PipeInit ==
    /\ pc = "idle"
    /\ op = "none"
    /\ github_url = ""
    /\ options = EmptyDict
    /\ ref = NoMatch
    /\ calls = <<>>
    /\ stack = <<>>
    /\ all_files = <<>>
    /\ structure = InitialStructure
    /\ files_to_analyze = <<>>
    /\ fetch_i = 0
    /\ result = Pending
    /\ failures = 0

\* validate_repository with the lookup's failure raised to the caller
ValidateReturn_raises(url, m, outcome, body) ==
    IF outcome.fault THEN Raised("ConnectionError")
    ELSE IF outcome.status /= 200 THEN Raised("HTTPError")
    ELSE IF ~body.json_ok THEN None
    ELSE Returned([owner |-> m.owner, name |-> m.repo_name, url |-> url])

\* validate_repository after the lookup was issued: what it returns
ValidateReturn(url, m, outcome, body) ==
    IF outcome.fault THEN None
    ELSE IF outcome.status /= 200 THEN None
    ELSE IF ~body.json_ok THEN None
    ELSE LET repo_data == body.data
         IN  Returned(
                [owner |-> m.owner,
                 name |-> m.repo_name,
                 full_name |-> Get(repo_data, "full_name", m.owner \o "/" \o m.repo_name),
                 description |-> Get(repo_data, "description", ""),
                 language |-> Get(repo_data, "language", "Unknown"),
                 stars |-> Get(repo_data, "stargazers_count", 0),
                 forks |-> Get(repo_data, "forks_count", 0),
                 url |-> url,
                 default_branch |-> Get(repo_data, "default_branch", "main")])

\* validate_repository(github_url)
CallValidate ==
    /\ pc = "idle"
    /\ \E url \in URLs, outcome \in LookupOutcomes, body \in LookupBodies :
          LET m == MatchRef(url)
          IN  /\ github_url' = url
              /\ IF ~m.matched
                 THEN /\ result' = None
                      /\ UNCHANGED <<ref, calls>>
                 ELSE /\ ref' = m
                      /\ calls' = Append(calls,
                            Call("repo",
                                 "https://api.github.com/repos/" \o m.owner \o "/" \o m.repo_name,
                                 "", outcome))
                      /\ result' = ValidateReturn(url, m, outcome, body)
    /\ op' = "validate_repository"
    /\ pc' = "done"
    /\ UNCHANGED <<options, stack, all_files, structure, files_to_analyze, fetch_i, failures>>
    /\ UNCHANGED <<skipVars, scoreVars, callerVars>>

\* fetch_repository_for_refactoring(url, opts), up to the first remote call of
\* the walker: the pattern match, and for a match the new structure
BeginFetch(url, opts) ==
    LET m == MatchRef(url)
    IN  /\ github_url' = url
        /\ options' = opts
        /\ op' = "fetch_repository_for_refactoring"
        /\ IF ~m.matched
           THEN /\ result' = Raised("ValueError")
                /\ pc' = "done"
                /\ UNCHANGED <<ref, stack, structure>>
           ELSE /\ ref' = m
                /\ structure' = InitialStructure
                /\ stack' = <<Frame("")>>
                /\ pc' = "walk"
                /\ result' = Pending

\* fetch_repository_for_refactoring(github_url, options) is called
CallFetch ==
    /\ pc = "idle"
    /\ \E url \in FetchURLs, opts \in OptionSets : BeginFetch(url, opts)
    /\ UNCHANGED <<calls, all_files, files_to_analyze, fetch_i, failures>>
    /\ UNCHANGED <<skipVars, scoreVars, callerVars>>

\* one invocation of fetch_repository_contents_recursive issues its listing
\* call, which comes to outcome, and the walker runs on to the next listing
\* call or to its end
WalkListWith(outcome) ==
    /\ pc = "walk"
    /\ LET path == Top(stack).path
           r    == IF Failed(outcome) THEN ListingFailed(stack)
                   ELSE ListingSucceeded(stack)
       IN  /\ Failed(outcome) => failures < MaxFailures
           /\ calls' = Append(calls, Call("contents", ContentsUrl(path), path, outcome))
           /\ failures' = IF Failed(outcome) THEN failures + 1 ELSE failures
           /\ stack' = r.stack
           /\ IF r.done
              THEN all_files' = r.ret /\ pc' = "classify"
              ELSE UNCHANGED <<all_files, pc>>
    /\ UNCHANGED <<op, github_url, options, ref, structure, files_to_analyze, fetch_i, result>>
    /\ UNCHANGED <<skipVars, scoreVars, callerVars>>

WalkList == \E outcome \in ListingOutcomes : WalkListWith(outcome)

\* the loop "Process files"
Classify ==
    /\ pc = "classify"
    /\ LET r == ClassifyAll(structure, all_files, options)
       IN  /\ structure' = r.structure
           /\ files_to_analyze' = r.files_to_analyze
    /\ pc' = "sort"
    /\ UNCHANGED <<op, github_url, options, ref, calls, stack, all_files, fetch_i, result, failures>>
    /\ UNCHANGED <<skipVars, scoreVars, callerVars>>

\* "Sort files by priority and complexity"
Sort ==
    /\ pc = "sort"
    /\ files_to_analyze' = SortFiles(files_to_analyze, Get(options, "focus_large_files", TRUE))
    /\ pc' = "limit"
    /\ UNCHANGED <<op, github_url, options, ref, calls, stack, all_files, structure, fetch_i,
                   result, failures>>
    /\ UNCHANGED <<skipVars, scoreVars, callerVars>>

\* "Limit the number of files to analyze"
Limit ==
    /\ pc = "limit"
    /\ files_to_analyze' = SlicePrefix(files_to_analyze, Get(options, "max_files", 60))
    /\ fetch_i' = 1
    /\ pc' = "fetch"
    /\ UNCHANGED <<op, github_url, options, ref, calls, stack, all_files, structure,
                   result, failures>>
    /\ UNCHANGED <<skipVars, scoreVars, callerVars>>

\* the label of the nearest bucket floor instead of the one below
ComplexityRange_nearest(complexity_score) ==
    IntToStr(((complexity_score + 10) \div 20) * 20) \o "-"
        \o IntToStr(((complexity_score + 10) \div 20) * 20 + 19)

\* f"{(s // 20) * 20}-{(s // 20) * 20 + 19}"
ComplexityRange(complexity_score) ==
    IntToStr((complexity_score \div 20) * 20) \o "-"
        \o IntToStr((complexity_score \div 20) * 20 + 19)

\* file_data['complexity_score'] = complexity_score: file_data is the one
\* object that both structure['files'] and files_to_analyze hold
WithScore(files, path, complexity_score) ==
    [i \in DOMAIN files |->
        IF files[i].path = path
        THEN [files[i] EXCEPT !.complexity_score = complexity_score]
        ELSE files[i]]

\* the body of the loop "Fetch file contents" for one file_data
FetchOne(st, file_data, outcome, content, complexity_score) ==
    IF outcome.fault
    THEN [st EXCEPT !.statistics.skipped_files = @ + 1]
    ELSE IF outcome.status = 200
    THEN LET complexity_range == ComplexityRange(complexity_score)
         IN  [st EXCEPT
                !.analyzed_files =
                    Put(@, file_data.path,
                        [content |-> content, size |-> file_data.size,
                         type |-> file_data.type,
                         complexity_score |-> complexity_score,
                         is_priority |-> file_data.is_priority]),
                !.files = WithScore(@, file_data.path, complexity_score),
                !.statistics.analyzed_files = @ + 1,
                !.statistics.complexity_distribution =
                    Put(@, complexity_range, Get(@, complexity_range, 0) + 1)]
    ELSE st

\* a transport fault that leaves the loop and the function
AfterFetch_escalates(outcome) ==
    IF outcome.fault THEN [pc |-> "done", result |-> Raised("ConnectionError")]
    ELSE [pc |-> "fetch", result |-> Pending]

\* where the function stands after one pass of the loop: the `try` of the
\* loop body catches every Exception, so the loop goes on and nothing is
\* returned or raised yet
AfterFetch(outcome) == [pc |-> "fetch", result |-> Pending]

\* a failed fetch that is tried again
NextCandidate_retries(i, outcome) == IF Failed(outcome) THEN i ELSE i + 1

\* `for file_data in files_to_analyze`: the next pass takes the next candidate
\* whatever the outcome of this one
NextCandidate(i, outcome) == i + 1

\* one pass of the loop "Fetch file contents": one remote call, which comes to
\* outcome and, when it succeeds, brings content
FetchFileWith(outcome, content) ==
    /\ pc = "fetch"
    /\ fetch_i <= Len(files_to_analyze)
    /\ LET file_data == files_to_analyze[fetch_i]
       IN  /\ Failed(outcome) => failures < MaxFailures
           /\ calls' = Append(calls,
                         Call("raw", file_data.download_url, file_data.path, outcome))
           /\ failures' = IF Failed(outcome) THEN failures + 1 ELSE failures
           /\ fetch_i' = NextCandidate(fetch_i, outcome)
           /\ pc' = AfterFetch(outcome).pc
           /\ result' = AfterFetch(outcome).result
           /\ \E complexity_score \in
                     {IF Failed(outcome) THEN 0
                      ELSE get_file_complexity_score(content, file_data.type)} :
                 /\ structure' = FetchOne(structure, file_data, outcome, content,
                                          complexity_score)
                 /\ files_to_analyze' =
                       IF ~Failed(outcome)
                       THEN WithScore(files_to_analyze, file_data.path, complexity_score)
                       ELSE files_to_analyze
    /\ UNCHANGED <<op, github_url, options, ref, stack, all_files>>
    /\ UNCHANGED <<skipVars, scoreVars, callerVars>>

FetchFile == \E outcome \in RawOutcomes, content \in FileContents : FetchFileWith(outcome, content)

\* `return structure`
ReturnStructure ==
    /\ pc = "fetch"
    /\ fetch_i > Len(files_to_analyze)
    /\ result' = Returned(structure)
    /\ pc' = "done"
    /\ UNCHANGED <<op, github_url, options, ref, calls, stack, all_files, structure,
                   files_to_analyze, fetch_i, failures>>
    /\ UNCHANGED <<skipVars, scoreVars, callerVars>>

----------------------------------------------------------------------------
(* Specifications                                                          *)

Init == IdleSkip /\ IdleScore /\ PipeInit /\ IdleCallers

Next ==
    \/ CallValidate
    \/ CallFetch
    \/ WalkList
    \/ Classify
    \/ Sort
    \/ Limit
    \/ FetchFile
    \/ ReturnStructure

Spec == Init /\ [][Next]_vars

\* should_skip_file_for_refactoring applied to each path of SkipPaths
SkipSpecInit == SkipInit /\ IdleScore /\ PipeInit /\ IdleCallers

SkipSpec == SkipSpecInit /\ [][SkipCall]_vars

\* get_file_complexity_score applied to each content of ScoreContents
ScoreNext == ScoreCall \/ ScoreLonger

ScoreSpecInit == IdleSkip /\ ScoreInit /\ PipeInit /\ IdleCallers

ScoreSpec == ScoreSpecInit /\ [][ScoreNext]_vars

\* both of the above: get_file_complexity_score called on its own, or a call of
\* validate_repository or fetch_repository_for_refactoring
ScoreOnly == pc = "off" /\ ScoreNext

ScoreAndFetchInit ==
    \/ IdleSkip /\ IdleScore /\ PipeInit /\ IdleCallers
    \/ /\ IdleSkip
       /\ ScoreInit
       /\ IdleCallers
       /\ pc = "off"
       /\ op = "none"
       /\ github_url = ""
       /\ options = EmptyDict
       /\ ref = NoMatch
       /\ calls = <<>>
       /\ stack = <<>>
       /\ all_files = <<>>
       /\ structure = InitialStructure
       /\ files_to_analyze = <<>>
       /\ fetch_i = 0
       /\ result = Pending
       /\ failures = 0

ScoreAndFetchNext == ScoreOnly \/ Next

ScoreAndFetchSpec == ScoreAndFetchInit /\ [][ScoreAndFetchNext]_vars

\* fetch_repository_for_refactoring called twice in one process with the same
\* arguments, the remote host answering each request of the second call as it
\* answered the same request of the first
FirstRun ==
    /\ run = 1
    /\ CallFetch \/ WalkList \/ Classify \/ Sort \/ Limit \/ FetchFile \/ ReturnStructure

\* the second call: the locals all_files, files_to_analyze and the loop
\* position are those of a new invocation only once it assigns them
CallFetchAgain ==
    /\ run = 1
    /\ pc = "done"
    /\ result.kind = "value"
    /\ first' = [calls |-> calls, result |-> result]
    /\ run' = 2
    /\ BeginFetch(github_url, options)
    /\ calls' = <<>>
    /\ failures' = 0
    /\ UNCHANGED <<all_files, files_to_analyze, fetch_i>>
    /\ UNCHANGED <<skipVars, scoreVars, genVars, appVars>>

\* the answers the first call got to the request for url, if it made it
AnsweredBefore(url) == {c \in Range(first.calls) : c.url = url}

\* what the request for url can come to in the second call: what it came to in
\* the first, or anything if the first call did not make it
SameOutcomes(url, outcomes) ==
    IF AnsweredBefore(url) = {} THEN outcomes
    ELSE {c.outcome : c \in AnsweredBefore(url)}

\* the text a fetched file has in the second call: the text it had in the first
SameContents(path) ==
    IF path \in DOMAIN first.result.value.analyzed_files
    THEN {first.result.value.analyzed_files[path].content}
    ELSE FileContents

SecondRun ==
    /\ run = 2
    /\ \/ /\ pc = "walk"
          /\ \E outcome \in SameOutcomes(ContentsUrl(Top(stack).path), ListingOutcomes) :
                WalkListWith(outcome)
       \/ Classify
       \/ Sort
       \/ Limit
       \/ /\ pc = "fetch"
          /\ fetch_i <= Len(files_to_analyze)
          /\ \E outcome \in SameOutcomes(files_to_analyze[fetch_i].download_url, RawOutcomes),
                content \in SameContents(files_to_analyze[fetch_i].path) :
                FetchFileWith(outcome, content)
       \/ ReturnStructure

RerunNext == FirstRun \/ CallFetchAgain \/ SecondRun

RerunSpec == Init /\ [][RerunNext]_vars

\* the button is pressed: the three checks of the inputs, then the clients are
\* initialised; the locals of an earlier run are gone
PressAnalyze ==
    /\ app_pc \in {"shown", "rejected", "stopped", "error", "complete"}
    /\ \E input \in AppInputs :
          /\ app_input' = input
          /\ app_pc' = IF input.github_url = "" \/ ~input.gemini_api_key
                           \/ \A k \in DOMAIN input.analysis_options :
                                 ~input.analysis_options[k]
                        THEN "rejected" ELSE "validate"
    /\ session_at_press' = session_state
    /\ gen_calls' = 0
    /\ repo_info' = None
    /\ pc' = "idle"
    /\ op' = "none"
    /\ github_url' = ""
    /\ options' = EmptyDict
    /\ ref' = NoMatch
    /\ calls' = <<>>
    /\ stack' = <<>>
    /\ all_files' = <<>>
    /\ structure' = InitialStructure
    /\ files_to_analyze' = <<>>
    /\ fetch_i' = 0
    /\ result' = Pending
    /\ failures' = 0
    /\ UNCHANGED <<session_state, skipVars, scoreVars, rerunVars, genVars>>

\* Step 1: repo_info = github_analyzer.validate_repository(github_url)
AppValidate ==
    /\ app_pc = "validate"
    /\ CallValidate
    /\ github_url' = app_input.github_url

\* validate_repository has returned: the run stops, or goes on to Step 2
AppValidated ==
    /\ app_pc = "validate"
    /\ pc = "done"
    /\ repo_info' = result
    /\ IF StopsRun(result)
       THEN /\ app_pc' = "stopped"
            /\ UNCHANGED <<pc, result>>
       ELSE /\ app_pc' = "fetch"
            /\ pc' = "idle"
            /\ result' = Pending
    /\ UNCHANGED <<op, github_url, options, ref, calls, stack, all_files, structure,
                   files_to_analyze, fetch_i, failures>>
    /\ UNCHANGED <<app_input, session_state, session_at_press, gen_calls>>
    /\ UNCHANGED <<skipVars, scoreVars, rerunVars, genVars>>

\* Step 2: github_analyzer.fetch_repository_for_refactoring(github_url, scope_options)
AppFetch ==
    /\ app_pc = "fetch"
    /\ CallFetch \/ WalkList \/ Classify \/ Sort \/ Limit \/ FetchFile \/ ReturnStructure
    /\ github_url' = app_input.github_url
    /\ options' = app_input.scope_options

\* Steps 3 and 4: fetch_repository_for_refactoring has returned, the generator
\* is called and the results are stored; an exception it raised is shown by
\* the `except` of the run
AppGenerate ==
    /\ app_pc = "fetch"
    /\ pc = "done"
    /\ IF result.kind = "raised"
       THEN /\ app_pc' = "error"
            /\ UNCHANGED <<session_state, gen_calls>>
       ELSE \E outcome \in AppGeneratorOutcomes :
               LET refactor_suggestions == generate_refactor_suggestions(outcome).value
               IN  /\ gen_calls' = gen_calls + 1
                   /\ session_state' =
                          [refactor_suggestions |-> refactor_suggestions,
                           repo_info |-> repo_info,
                           analysis_options |-> app_input.analysis_options]
                   /\ app_pc' = "complete"
    /\ UNCHANGED <<app_input, repo_info, session_at_press>>
    /\ UNCHANGED <<pipeVars, skipVars, scoreVars, rerunVars, genVars>>

\* the application: the button pressed again and again
AppNext == PressAnalyze \/ AppValidate \/ AppValidated \/ AppFetch \/ AppGenerate

AppSpec == Init /\ [][AppNext]_vars

\* generate_refactor_suggestions applied to each outcome of GeneratorOutcomes
GenSpecInit == IdleSkip /\ IdleScore /\ PipeInit /\ IdleRerun /\ GenInit /\ IdleApp

GenSpec == GenSpecInit /\ [][GenCall]_vars

\* The calls as the interpreter runs them: one thread, every statement after
\* the one before it, and every remote call returning (with a response or a
\* fault). Each condition below names one step of a started call by what it
\* does to the position of the call: it can be taken exactly where the step of
\* Next it stands for can, and within Next only that step takes it.

\* the listing call of the invocation on top of the stack is issued and returns
ListingReturns ==
    /\ pc = "walk"
    /\ \E outcome \in ListingOutcomes :
          calls' = Append(calls, Call("contents", ContentsUrl(Top(stack).path),
                                      Top(stack).path, outcome))

\* the loop "Process files" ends
ClassifyEnds == pc = "classify" /\ pc' = "sort"

\* list.sort returns
SortEnds == pc = "sort" /\ pc' = "limit"

\* the slice is taken
LimitEnds == pc = "limit" /\ pc' = "fetch"

\* one pass of the loop "Fetch file contents" ends
FetchReturns ==
    /\ pc = "fetch"
    /\ fetch_i <= Len(files_to_analyze)
    /\ fetch_i' = fetch_i + 1

\* `return structure` is reached
StructureReturned ==
    /\ pc = "fetch"
    /\ fetch_i > Len(files_to_analyze)
    /\ pc' = "done"

RunNext == Next

RunSpec ==
    /\ Init
    /\ [][RunNext]_vars
    /\ WF_calls(ListingReturns)
    /\ WF_pc(ClassifyEnds)
    /\ WF_pc(SortEnds)
    /\ WF_pc(LimitEnds)
    /\ WF_fetch_i(FetchReturns)
    /\ WF_pc(StructureReturned)

----------------------------------------------------------------------------
(* Properties                                                              *)

StartedFetch == op = "fetch_repository_for_refactoring"
StartedValidate == op = "validate_repository"

Stats == structure.statistics

\* every entry of the repository, and the verdict of the skip check on each
\* path of it, worked out once
TreeEntries == UNION {Range(RepoTree[d]) : d \in DOMAIN RepoTree}
TreePaths == DOMAIN RepoTree \cup {e.path : e \in TreeEntries}
SkipVerdict ==
    [path \in TreePaths |->
        [include_tests \in BOOLEAN |-> should_skip_file_for_refactoring(path, include_tests)]]

\* the FetchFile step whose remote call failed, by status or by fault
FailedFetchStep ==
    /\ pc = "fetch"
    /\ Len(calls') = Len(calls) + 1
    /\ Failed(calls'[Len(calls')].outcome)

\* C1: every selected candidate whose content retrieval fails, by a non-200
\* status or by a transport fault, adds exactly one to
\* statistics.skipped_files and is absent from analyzed_files.
C1_FailedFetchIsCountedSkipped ==
    [][FailedFetchStep =>
          /\ structure'.statistics.skipped_files = Stats.skipped_files + 1
          /\ calls'[Len(calls')].path \notin DOMAIN structure'.analyzed_files]_vars

\* path contains pattern when case is ignored
ContainsIgnoringCase(path, pattern) == Contains(Lower(path), Lower(pattern))

\* C2: a path that contains a member of SKIP_REFACTOR_PATTERNS, case ignored,
\* is skipped whatever include_tests and whatever its extension.
C2_SkipPatternAlwaysSkipped ==
    (sk_done /\ \E pattern \in SKIP_REFACTOR_PATTERNS : ContainsIgnoringCase(sk_path, pattern))
        => sk_ret = TRUE

\* C3: get_file_complexity_score returns an integer in 0..100, and so every
\* complexity_score stored in analyzed_files is in 0..100.
C3_ScoreWithinBounds ==
    /\ sc_calls > 0 => sc_score \in 0..100
    /\ \A path \in DOMAIN structure.analyzed_files :
          structure.analyzed_files[path].complexity_score \in 0..100

\* the cap applies: fifty-two `if ` lines and five hundred more lines of
\* Python would score 50 + 104 without it
C3_Witness ==
    /\ sc_calls = 1
    /\ sc_score = 100
    /\ sc_file_type = ".py"
    /\ sc_content = Repeat("IF x:\n", MaxKeywordLines) \o Repeat("\n", MaxPlainLines)

\* the number of positions of content at which keyword occurs, case ignored
OccurrenceCount(lowered, keyword) == Cardinality(Occurrences(lowered, Lower(keyword)))

KeywordSum(lowered, keywords) ==
    LET Sum[k \in 0..Len(keywords)] ==
            IF k = 0 THEN 0 ELSE Sum[k - 1] + OccurrenceCount(lowered, keywords[k])
    IN  Sum[Len(keywords)]

\* C4: the score is min(min(floor(line_count / 10), 50) + 2 * (the occurrences,
\* case ignored, of the keywords of the list selected for the extension), 100);
\* 30 lines of Python with three `def ` and one `class ` score 11.
C4_ScoreFormula ==
    sc_calls > 0 =>
        sc_score = Min(Min(LineCount(sc_content) \div 10, 50)
                          + 2 * KeywordSum(Lower(sc_content), PatternsFor(sc_file_type)),
                       100)

C4_Witness ==
    /\ sc_calls = 1
    /\ sc_score = 11
    /\ sc_file_type = ".py"
    /\ sc_content = ScenarioContent
    /\ LineCount(sc_content) = 30
    /\ Count(sc_content, "def ") = 3
    /\ Count(sc_content, "class ") = 1

\* C5: with the keyword occurrences held fixed (ScoreLonger adds empty lines
\* only), the score of the content with more lines (doubled, or one more) is
\* not below the score of the original and is at most 100.
C5_MonotoneInLines ==
    sc_calls = 2 => (sc_prev_score <= sc_score /\ sc_score <= 100)

\* ten lines without keywords score 1, the same doubled to twenty score 2
C5_Witness ==
    /\ sc_calls = 2
    /\ sc_prev_content = Repeat("\n", 9)
    /\ sc_prev_score = 1
    /\ sc_score = 2
    /\ LineCount(sc_content) = 2 * LineCount(sc_prev_content)

Paths(files) == [i \in DOMAIN files |-> files[i].path]

\* the candidates have been ranked (and possibly limited)
Ranked == StartedFetch /\ pc \in {"limit", "fetch", "done"} /\ ref.matched

\* C6: in the ranked order every priority candidate precedes every
\* non-priority candidate, and within a tier sizes do not increase when
\* focus_large_files is set and do not decrease when it is not.
C6_RankedOrder ==
    Ranked =>
        \A i, j \in DOMAIN files_to_analyze :
            i < j =>
                LET a == files_to_analyze[i]
                    b == files_to_analyze[j]
                IN  /\ b.is_priority => a.is_priority
                    /\ a.is_priority = b.is_priority =>
                          IF Get(options, "focus_large_files", TRUE)
                          THEN a.size >= b.size
                          ELSE a.size <= b.size

\* the candidates package.json (priority, 500), a.py (9000), b.py (100) with
\* focus_large_files and max_files = 2 give package.json, a.py
C6_Witness ==
    /\ StartedFetch
    /\ pc = "fetch"
    /\ fetch_i = 1
    /\ Get(options, "focus_large_files", TRUE)
    /\ Get(options, "max_files", 60) = 2
    /\ Paths(structure.files) = <<"package.json", "src/a.py", "src/b.py">>
    /\ Paths(files_to_analyze) = <<"package.json", "src/a.py">>
    /\ files_to_analyze[1].is_priority
    /\ ~files_to_analyze[2].is_priority

\* C7: the files selected for content fetch are the first
\* min(len(candidates), max_files) entries of the sorted candidates.
C7_LimitIsPrefix ==
    [][(pc = "limit" /\ pc' = "fetch") =>
          /\ Len(files_to_analyze') = Min(Len(files_to_analyze), Get(options, "max_files", 60))
          /\ \A i \in 1..Len(files_to_analyze') : files_to_analyze'[i] = files_to_analyze[i]]_vars

\* more candidates than max_files: exactly max_files of them are selected
C7_Witness ==
    /\ StartedFetch
    /\ pc = "fetch"
    /\ fetch_i = 1
    /\ Get(options, "max_files", 60) = 2
    /\ Len(structure.files) = 5
    /\ Len(files_to_analyze) = 2

\* C8: for a URL that does not match the github.com/owner/repo pattern,
\* validate_repository returns None, fetch_repository_for_refactoring raises,
\* and no remote call is issued.
C8_MalformedReferenceFails ==
    (op /= "none" /\ github_url \in MalformedURLs) =>
        /\ pc = "done"
        /\ calls = <<>>
        /\ StartedValidate => result = None
        /\ StartedFetch => result.kind = "raised"

C8_Witness ==
    /\ StartedFetch
    /\ github_url = "https://github.com/octo/repo/tree/main"
    /\ result = Raised("ValueError")
    /\ calls = <<>>

\* C9: for a well-formed reference validate_repository issues exactly one
\* remote lookup, returns None when the lookup's status is not 200, and never
\* raises.
C9_ValidateNeverRaises ==
    (StartedValidate /\ github_url \in WellFormedURLs) =>
        /\ Len(calls) = 1
        /\ calls[1].kind = "repo"
        /\ result.kind /= "raised"
        /\ Failed(calls[1].outcome) => result = None

C9_Witness ==
    /\ StartedValidate
    /\ github_url \in WellFormedURLs
    /\ calls = <<Call("repo", "https://api.github.com/repos/octo/repo", "", Response(404))>>
    /\ result = None

\* the directories whose listing failed, by status or by fault
FailedDirs == {calls[i].path : i \in {k \in DOMAIN calls :
                  calls[k].kind = "contents" /\ Failed(calls[k].outcome)}}

\* the files below path, depth first, when the directories of failed hold
\* nothing and skipped directories are not entered
RECURSIVE FilesBelow(_, _)
FilesBelow(path, failed) ==
    IF path \in failed THEN <<>>
    ELSE LET listing == RepoTree[path]
             Sub(item) ==
                 IF item.type = "file" THEN <<item>>
                 ELSE IF item.type /= "dir" THEN <<>>
                 ELSE IF SkipVerdict[item.path][FALSE] THEN <<>>
                 ELSE FilesBelow(item.path, failed)
             Upto[k \in 0..Len(listing)] ==
                 IF k = 0 THEN <<>> ELSE Upto[k - 1] \o Sub(listing[k])
         IN  Upto[Len(listing)]

\* the walker has returned
Walked == StartedFetch /\ ref.matched /\ pc \in {"classify", "sort", "limit", "fetch", "done"}

\* C10: when the listing of a directory fails the walker returns nothing for
\* that subtree, raises nothing, and returns the files of every other entry as
\* if that subtree were empty.
C10_FailedSubtreeIsEmpty ==
    /\ (StartedFetch /\ ref.matched /\ pc /= "done") => result = Pending
    /\ Walked => all_files = FilesBelow("", FailedDirs)

\* src/core fails: its file is missing, the files before and after it in src
\* and the files of lib and of the root are there
C10_Witness ==
    /\ Walked
    /\ FailedDirs = {"src/core"}
    /\ Paths(all_files) = <<"package.json", "src/a.py", "src/b.py", "lib/guide.md",
                            "lib/logo.png", "lib/latest.py", "lib/.DS_Store.json",
                            "build.gradle", "Dockerfile">>

\* the content-fetch calls and the listing calls issued so far, in order
RawCalls == SelectSeq(calls, LAMBDA c : c.kind = "raw")
ContentsCalls == SelectSeq(calls, LAMBDA c : c.kind = "contents")

\* C11: a failure of one content fetch, by status or by fault, never makes
\* fetch_repository_for_refactoring raise: for a well-formed reference nothing
\* is raised, every selected candidate is attempted in ranked order whatever
\* became of the ones before it, and the call ends by returning the payload.
C11_FetchFailureNeverEscalates ==
    (StartedFetch /\ ref.matched) =>
        /\ result.kind /= "raised"
        /\ pc = "fetch" =>
              Paths(RawCalls) = SubSeq(Paths(files_to_analyze), 1, fetch_i - 1)
        /\ pc = "done" =>
              /\ result = Returned(structure)
              /\ Paths(RawCalls) = Paths(files_to_analyze)

\* the first candidate's fetch ends in a fault, the second is still fetched
\* and scored, and the payload is returned
C11_Witness ==
    /\ StartedFetch
    /\ pc = "done"
    /\ result.kind = "value"
    /\ Len(RawCalls) = 2
    /\ RawCalls[1].outcome = Fault
    /\ RawCalls[2].outcome = Response(200)
    /\ DOMAIN result.value.analyzed_files = {RawCalls[2].path}

\* C12: when the listing of the repository root answers with a status other
\* than 200, fetch_repository_for_refactoring raises instead of returning a
\* payload.
C12_InvalidRootRaises ==
    (/\ StartedFetch
     /\ ref.matched
     /\ pc = "done"
     /\ calls /= <<>>
     /\ calls[1].kind = "contents"
     /\ calls[1].path = ""
     /\ calls[1].outcome = Response(404))
        => result.kind = "raised"

\* the entries of the repository that are files
LeafPaths ==
    UNION {{RepoTree[d][k].path : k \in {j \in DOMAIN RepoTree[d] :
                                            RepoTree[d][j].type = "file"}} :
           d \in DOMAIN RepoTree}

\* C13: every member of the candidate list is a file, never a directory; its
\* path contains no skip pattern when case is ignored, does not end in a
\* binary or media suffix, and contains no test marker unless include_tests
\* is set.
C13_CandidatesPassSkipRules ==
    StartedFetch =>
        \A i \in DOMAIN structure.files :
            LET path == structure.files[i].path
            IN  /\ path \in LeafPaths
                /\ \A pattern \in SKIP_REFACTOR_PATTERNS :
                      ~ContainsIgnoringCase(path, pattern)
                /\ \A suffix \in BINARY_SUFFIXES : ~EndsWith(Lower(path), suffix)
                /\ ~Get(options, "include_tests", FALSE) =>
                      \A marker \in TEST_PATTERNS : ~ContainsIgnoringCase(path, marker)

\* the classification loop has run
Classified == Walked /\ pc /= "classify"

\* what the claim says of one enumerated file: its extension, whether its
\* name is a priority name, whether it is code, whether it is configuration
FileClass ==
    [path \in {e.path : e \in TreeEntries} |->
        LET name == (CHOOSE e \in TreeEntries : e.path = path).name
        IN  [ext |-> Lower(SplitExt(name)),
             priority |-> \E f \in PRIORITY_REFACTOR_FILES : Lower(f) = Lower(name)]]
ExtOf(file_info) == FileClass[file_info.path].ext
PriorityName(file_info) == FileClass[file_info.path].priority
CodeFile(file_info) == ExtOf(file_info) \in REFACTOR_EXTENSIONS
ConfigFile(file_info) ==
    /\ Get(options, "include_config", TRUE)
    /\ PriorityName(file_info) \/ ExtOf(file_info) \in {".json", ".yaml", ".yml", ".toml"}
PassesSkipCheck(file_info) ==
    ~SkipVerdict[file_info.path][Get(options, "include_tests", FALSE)]

\* C14: an enumerated file that passes the skip check is a candidate exactly
\* when it is code or configuration, where configuration means include_config
\* is set and the file is a priority file or has one of the four structured
\* extensions; every other enumerated file is left out of the candidates and
\* adds exactly one to skipped_files.
C14_CandidateIffCodeOrConfig ==
    Classified =>
        /\ \A k \in DOMAIN all_files :
              (all_files[k].path \in {structure.files[i].path : i \in DOMAIN structure.files})
                 <=> /\ PassesSkipCheck(all_files[k])
                     /\ CodeFile(all_files[k]) \/ ConfigFile(all_files[k])
        /\ \A i \in DOMAIN structure.files :
              \E k \in DOMAIN all_files :
                 /\ all_files[k].path = structure.files[i].path
                 /\ structure.files[i].is_priority = PriorityName(all_files[k])
        /\ pc \in {"sort", "limit"} =>
              Stats.skipped_files =
                 Cardinality({k \in DOMAIN all_files :
                    ~(/\ PassesSkipCheck(all_files[k])
                      /\ CodeFile(all_files[k]) \/ ConfigFile(all_files[k]))})

\* include_config off: the priority file Dockerfile, which has no code
\* extension, is left out with the Markdown file and the two skipped files; the
\* .json files are code and stay candidates
C14_Witness ==
    /\ Classified
    /\ pc = "sort"
    /\ ~Get(options, "include_config", TRUE)
    /\ Get(options, "include_tests", FALSE)
    /\ Paths(all_files) = <<"package.json", "src/a.py", "src/core/c.ts", "src/b.py",
                            "lib/guide.md", "lib/logo.png", "lib/latest.py",
                            "lib/.DS_Store.json", "build.gradle", "Dockerfile">>
    /\ Paths(structure.files) = <<"package.json", "src/a.py", "src/core/c.ts", "src/b.py",
                                  "lib/latest.py", "lib/.DS_Store.json">>
    /\ Stats.skipped_files = 4

\* the place of a candidate in the order of enumeration
EnumeratedAt(path) == CHOOSE i \in DOMAIN structure.files : structure.files[i].path = path

\* C17: two candidates of equal is_priority and equal size stand in the
\* ranked order as the traversal enumerated them, whatever focus_large_files.
C17_RankingIsStable ==
    Ranked =>
        \A i, j \in DOMAIN files_to_analyze :
            (/\ i < j
             /\ files_to_analyze[i].is_priority = files_to_analyze[j].is_priority
             /\ files_to_analyze[i].size = files_to_analyze[j].size)
                => EnumeratedAt(files_to_analyze[i].path) < EnumeratedAt(files_to_analyze[j].path)

\* the three files of size 100 keep the order c.ts, b.py, latest.py in which
\* the walker met them
C17_Witness ==
    /\ Ranked
    /\ pc = "limit"
    /\ ~Get(options, "focus_large_files", TRUE)
    /\ Paths(structure.files) = <<"package.json", "src/a.py", "src/core/c.ts", "src/b.py",
                                  "lib/latest.py", "lib/.DS_Store.json", "Dockerfile">>
    /\ Paths(files_to_analyze) = <<"Dockerfile", "package.json", "lib/.DS_Store.json",
                                   "src/core/c.ts", "src/b.py", "lib/latest.py", "src/a.py">>

\* the directories the walker lists, depth first, when the listings of
\* failed fail: the root, and below a listed directory every directory entry
\* that the skip check passes
RECURSIVE DirsBelow(_, _)
DirsBelow(path, failed) ==
    IF path \in failed THEN <<path>>
    ELSE LET listing == RepoTree[path]
             Sub(item) ==
                 IF item.type = "dir" /\ ~SkipVerdict[item.path][FALSE]
                 THEN DirsBelow(item.path, failed)
                 ELSE <<>>
             Upto[k \in 0..Len(listing)] ==
                 IF k = 0 THEN <<>> ELSE Upto[k - 1] \o Sub(listing[k])
         IN  <<path>> \o Upto[Len(listing)]

\* directory d is path or lies above it
AtOrAbove(d, path) ==
    d = path \/ (Len(d) < Len(path) /\ SubSeq(path, 1, Len(d) + 1) = d \o "/")

\* C18: no listing call is issued for a directory that the skip check (as the
\* walker calls it) rejects, nor for anything below such a directory, no
\* directory is listed twice, and when the walker has returned every
\* directory it could reach through listed, non-skipped directories has been
\* listed.
C18_SkippedDirectoriesNeverListed ==
    StartedFetch =>
        /\ \A k \in DOMAIN ContentsCalls :
              \A d \in DOMAIN RepoTree \ {""} :
                  AtOrAbove(d, ContentsCalls[k].path)
                      => ~SkipVerdict[d][FALSE]
        /\ \A k, l \in DOMAIN ContentsCalls :
              ContentsCalls[k].path = ContentsCalls[l].path => k = l
        /\ Walked =>
              Range(Paths(ContentsCalls)) = Range(DirsBelow("", FailedDirs))

\* every listing succeeded: the root, src, src/core and lib were listed,
\* node_modules, node_modules/pkg and tests were not
C18_Witness ==
    /\ Walked
    /\ FailedDirs = {}
    /\ Range(Paths(ContentsCalls)) = {"", "src", "src/core", "lib"}
    /\ Len(ContentsCalls) = 4
    /\ SkipVerdict["node_modules"][FALSE]

\* C19: the remote calls of one run come one after the other in this order:
\* the directory listings, depth first, then the content fetches, in ranked
\* order, one per selected candidate and none repeated, so that a finished run
\* has issued min(number of candidates, max_files) content fetches.
C19_CallsInOrder ==
    (StartedFetch /\ ref.matched) =>
        /\ \A k, l \in DOMAIN calls :
              (k < l /\ calls[k].kind = "raw") => calls[l].kind = "raw"
        /\ \A k \in DOMAIN calls : calls[k].kind \in {"contents", "raw"}
        /\ \A k \in DOMAIN ContentsCalls :
              ContentsCalls[k].path = DirsBelow("", FailedDirs)[k]
        /\ \A k \in DOMAIN RawCalls :
              /\ pc \in {"fetch", "done"}
              /\ k <= Len(files_to_analyze)
              /\ RawCalls[k].path = files_to_analyze[k].path
              /\ RawCalls[k].url = files_to_analyze[k].download_url
        /\ pc = "done" =>
              Len(RawCalls) = Min(Len(structure.files), Get(options, "max_files", 60))

\* four listings, then the two selected candidates, the first of which failed
C19_Witness ==
    /\ StartedFetch
    /\ pc = "done"
    /\ Get(options, "max_files", 60) = 2
    /\ Get(options, "focus_large_files", TRUE)
    /\ Paths(calls) = <<"", "src", "src/core", "lib", "package.json", "Dockerfile">>
    /\ calls[5].outcome = Response(404)
    /\ Len(structure.files) = 7

\* C15: a second run with the same reference and options, answered as the
\* first was, returns the payload the first returned (the same candidate
\* records, scored mapping and statistics), and nothing the first run counted
\* or collected is in the second run's structure when it starts.
C15_RunsAgree ==
    run = 2 =>
        /\ pc = "walk" => structure = InitialStructure
        /\ pc \in {"sort", "limit", "fetch", "done"} =>
              /\ Paths(structure.files) = Paths(first.result.value.files)
              /\ Stats.total_files = first.result.value.statistics.total_files
              /\ Stats.code_files = first.result.value.statistics.code_files
              /\ Stats.languages = first.result.value.statistics.languages
        /\ pc = "done" => result = first.result

\* the second run has returned after a first run that scored one file,
\* failed on another and skipped files while classifying
C15_Witness ==
    /\ run = 2
    /\ pc = "done"
    /\ result = first.result
    /\ result.value.statistics.analyzed_files = 1
    /\ result.value.statistics.skipped_files >= 4
    /\ Len(RawCalls) = 2
    /\ Len(first.calls) = Len(calls)

\* C16: generate_refactor_suggestions never raises; when the generator call
\* raises, answers without text or answers with text that is not valid JSON it
\* returns a mapping with an 'error' entry, and for unparseable text the
\* raw_response is the text itself when it has at most 1000 characters and
\* its first 1000 characters followed by '...' when it has more.
C16_GeneratorFailureIsDegradedResult ==
    g_calls = 1 =>
        /\ g_ret.kind = "value"
        /\ (\/ g_outcome.raises
            \/ g_outcome.text = ""
            \/ g_outcome.text \in InvalidJsonTexts)
              => "error" \in DOMAIN g_ret.value
        /\ (~g_outcome.raises /\ g_outcome.text \in InvalidJsonTexts) =>
              LET text == g_outcome.text
                  raw  == g_ret.value.raw_response
              IN  /\ Len(text) <= 1000 => raw = text
                  /\ Len(text) > 1000 =>
                        /\ Len(raw) = 1003
                        /\ SubSeq(raw, 1, 1000) = SubSeq(text, 1, 1000)
                        /\ SubSeq(raw, 1001, 1003) = "..."
        /\ (~g_outcome.raises /\ g_outcome.text \in ValidJsonTexts) =>
              "error" \notin DOMAIN g_ret.value

\* a JSON text cut off inside a string after 1014 characters comes back as its
\* first 1000 characters and three dots
C16_Witness ==
    /\ g_calls = 1
    /\ g_outcome = GeneratorResponds("{\"summary\": \"" \o Repeat("x", 1001))
    /\ g_ret.kind = "value"
    /\ g_ret.value.error = "Failed to parse AI response"
    /\ g_ret.value.raw_response = "{\"summary\": \"" \o Repeat("x", 987) \o "..."

\* C20: when validate_repository returns None to the application the run
\* stops there: after the one lookup (none for a malformed URL) no listing, no
\* content fetch and no generator call is issued in that run, the lookup is
\* not repeated, and the stored refactor_suggestions, repo_info and
\* analysis_options stay as they were when the button was pressed.
C20_InvalidRepositoryStopsRun ==
    /\ [][(app_pc = "validate" /\ pc = "done" /\ result = None)
            => (app_pc' = "stopped" /\ UNCHANGED <<calls, gen_calls, session_state>>)]_vars
    /\ [][app_pc = "stopped" => app_pc' \in {"rejected", "validate"}]_vars
    /\ [](app_pc = "stopped" =>
            /\ repo_info = None
            /\ \A k \in DOMAIN calls : calls[k].kind = "repo"
            /\ Len(calls) = IF app_input.github_url \in MalformedURLs THEN 0 ELSE 1
            /\ gen_calls = 0
            /\ session_state = session_at_press)

\* a first run stored its results; in the next run the lookup answers 404, the
\* run stops after that one call and the stored results are still there
C20_Witness ==
    /\ app_pc = "stopped"
    /\ calls = <<Call("repo", "https://api.github.com/repos/octo/repo", "", Response(404))>>
    /\ "refactor_suggestions" \in DOMAIN session_state
    /\ session_state.repo_info.value.full_name = "octo/repo"
    /\ "error" \notin DOMAIN session_state.refactor_suggestions
    /\ session_state = session_at_press
    /\ gen_calls = 0

\* C21: a started call of fetch_repository_for_refactoring comes to its end,
\* with a returned payload or a raised exception, whatever the listing and
\* content calls answer; on the way no directory is listed twice and no
\* candidate is fetched twice.
C21_RunTerminates ==
    /\ [](\A k, l \in DOMAIN calls : calls[k].url = calls[l].url => k = l)
    /\ StartedFetch ~> (pc = "done" /\ result.kind \in {"value", "raised"})

\* a finished call in which one listing failed by status and one content
\* fetch by fault
C21_Witness ==
    /\ StartedFetch
    /\ pc = "done"
    /\ result.kind = "value"
    /\ \E k \in DOMAIN calls :
          calls[k].kind = "contents" /\ calls[k].outcome = Response(404)
    /\ \E k \in DOMAIN calls : calls[k].kind = "raw" /\ calls[k].outcome = Fault
    /\ Len(calls) >= 4

\* the labels of the buckets a score of 0..100 can fall in, by bucket floor
BucketLabel ==
    [L \in {0, 20, 40, 60, 80, 100} |->
        CASE L = 0 -> "0-19" [] L = 20 -> "20-39" [] L = 40 -> "40-59"
          [] L = 60 -> "60-79" [] L = 80 -> "80-99" [] L = 100 -> "100-119"]

RECURSIVE DictSum(_)
DictSum(d) ==
    IF DOMAIN d = {} THEN 0
    ELSE LET k == CHOOSE x \in DOMAIN d : TRUE
         IN  d[k] + DictSum([x \in DOMAIN d \ {k} |-> d[x]])

\* the paths of the scored mapping whose score lies in the bucket with floor L
ScoredIn(L) ==
    {p \in DOMAIN structure.analyzed_files :
        structure.analyzed_files[p].complexity_score \in L..(L + 19)}

\* C22: complexity_distribution is the histogram of the scored mapping: its
\* labels are bucket labels 'L-H' with L a multiple of 20 and H = L + 19, the
\* count under each label is the number of scored files whose score lies in
\* L..H (a label is present exactly when that number is not zero), every
\* scored file falls in one bucket, and the counts add up to
\* statistics.analyzed_files, which is the number of entries of
\* analyzed_files.
C22_HistogramMatchesScores ==
    StartedFetch =>
        LET dist == Stats.complexity_distribution
        IN  /\ DOMAIN dist \subseteq Range(BucketLabel)
            /\ \A L \in DOMAIN BucketLabel :
                  /\ Get(dist, BucketLabel[L], 0) = Cardinality(ScoredIn(L))
                  /\ BucketLabel[L] \in DOMAIN dist <=> ScoredIn(L) /= {}
            /\ DOMAIN structure.analyzed_files = UNION {ScoredIn(L) : L \in DOMAIN BucketLabel}
            /\ DictSum(dist) = Stats.analyzed_files
            /\ Stats.analyzed_files = Cardinality(DOMAIN structure.analyzed_files)
            /\ pc = "done" /\ ref.matched => result = Returned(structure)

\* a returned payload with one file of score 50 and one of score 100, the
\* latter under the label 100-119
C22_Witness ==
    /\ StartedFetch
    /\ pc = "done"
    /\ result.kind = "value"
    /\ result.value.statistics.complexity_distribution = [l \in {"40-59", "100-119"} |-> 1]
    /\ result.value.statistics.analyzed_files = 2
    /\ {result.value.analyzed_files[p].complexity_score :
            p \in DOMAIN result.value.analyzed_files} = {50, 100}

\* the path has a test marker somewhere in it, case ignored
HasTestMarker(path) == \E marker \in TEST_PATTERNS : ContainsIgnoringCase(path, marker)

\* C23: test markers are matched as substrings of the lower-cased path. With
\* include_tests false every path that has a marker anywhere in it is skipped,
\* also inside another word (latest.py); with include_tests true a path that
\* has a marker, but no skip pattern (case ignored) and no binary or media
\* suffix (case ignored), is not skipped.
C23_TestMarkersAreSubstrings ==
    (sk_done /\ HasTestMarker(sk_path)) =>
        /\ ~sk_include_tests => sk_ret = TRUE
        /\ (/\ sk_include_tests
            /\ ~\E pattern \in SKIP_REFACTOR_PATTERNS : ContainsIgnoringCase(sk_path, pattern)
            /\ ~\E suffix \in BINARY_SUFFIXES : EndsWith(Lower(sk_path), suffix))
              => sk_ret = FALSE

\* src/latest.py is skipped when tests are not included
C23_Witness ==
    /\ sk_done
    /\ sk_path = "src/latest.py"
    /\ ~sk_include_tests
    /\ sk_ret = TRUE
    /\ ~\E pattern \in SKIP_REFACTOR_PATTERNS : ContainsIgnoringCase(sk_path, pattern)

\* the directories that hold path, the root left out
DirsAbove(path) == {d \in DOMAIN RepoTree \ {""} : d /= path /\ AtOrAbove(d, path)}

\* C24: with include_tests set, a source file below a directory whose path
\* has a test marker but no skip pattern (tests/util.py) is enumerated by the
\* walker and becomes a candidate: when every listing succeeded, every code
\* file of the repository that the skip check passes with include_tests set,
\* in directories that it passes with include_tests set, is enumerated and is
\* a candidate.
C24_TestDirectoriesAreWalked ==
    (Classified /\ FailedDirs = {} /\ Get(options, "include_tests", FALSE)) =>
        \A e \in TreeEntries :
            (/\ e.type = "file"
             /\ FileClass[e.path].ext \in REFACTOR_EXTENSIONS
             /\ ~SkipVerdict[e.path][TRUE]
             /\ \A d \in DirsAbove(e.path) : ~SkipVerdict[d][TRUE])
                => /\ e.path \in Range(Paths(all_files))
                   /\ e.path \in Range(Paths(structure.files))

\* C25: with include_config set, every enumerated file of the root whose
\* lower-cased name is a member of PRIORITY_REFACTOR_FILES (build.gradle among
\* them) is a candidate with is_priority true, and in the ranked order it
\* stands before every candidate that is not a priority file.
C25_PriorityFilesAreCandidates ==
    (Classified /\ Get(options, "include_config", TRUE)) =>
        \A k \in DOMAIN all_files :
            (all_files[k].path = all_files[k].name /\ PriorityName(all_files[k])) =>
                /\ \E i \in DOMAIN structure.files :
                      /\ structure.files[i].path = all_files[k].path
                      /\ structure.files[i].is_priority
                /\ pc = "limit" =>
                      \E i \in DOMAIN files_to_analyze :
                          /\ files_to_analyze[i].path = all_files[k].path
                          /\ \A j \in DOMAIN files_to_analyze :
                                ~files_to_analyze[j].is_priority => i < j

\* C26: when the classification loop has ended every enumerated file has been
\* counted once: total_files + skipped_files is the number of enumerated
\* files, total_files is the length of the candidate list, each count of
\* languages is the number of candidates of that extension that are code,
\* and code_files is the sum of those counts and at most total_files.
C26_ClassificationAccounting ==
    Classified =>
        /\ Stats.total_files = Len(structure.files)
        /\ \A ext \in DOMAIN Stats.languages :
              /\ ext \in REFACTOR_EXTENSIONS
              /\ Stats.languages[ext] =
                    Cardinality({i \in DOMAIN structure.files : structure.files[i].type = ext})
        /\ Stats.code_files = DictSum(Stats.languages)
        /\ Stats.code_files =
              Cardinality({i \in DOMAIN structure.files :
                              structure.files[i].type \in REFACTOR_EXTENSIONS})
        /\ Stats.code_files <= Stats.total_files
        /\ pc \in {"sort", "limit"} =>
              /\ Stats.total_files + Stats.skipped_files = Len(all_files)
              /\ Len(files_to_analyze) = Stats.total_files

\* tests and configuration included, every listing answered: of the ten
\* enumerated files seven are candidates, six of them code in three
\* languages (Dockerfile is a candidate that is not code), three are skipped
C26_Witness ==
    /\ Classified
    /\ pc = "sort"
    /\ Len(all_files) = 10
    /\ Stats.total_files = 7
    /\ Stats.skipped_files = 3
    /\ Stats.code_files = 6
    /\ Stats.languages = [ext \in {".json", ".py", ".ts"} |->
                             CASE ext = ".json" -> 2 [] ext = ".py" -> 3 [] ext = ".ts" -> 1]

\* candidate i stands before candidate j in the ranked order: priority files
\* first, then by size (larger first when focus_large_files, smaller first
\* otherwise), then in the order of enumeration
RankedBefore(i, j) ==
    LET a == structure.files[i]
        b == structure.files[j]
        larger_first == Get(options, "focus_large_files", TRUE)
    IN  \/ a.is_priority /\ ~b.is_priority
        \/ /\ a.is_priority = b.is_priority
           /\ \/ IF larger_first THEN a.size > b.size ELSE a.size < b.size
              \/ a.size = b.size /\ i < j

\* the candidates among the first max_files of the ranked order, by path
RankedPrefix ==
    {structure.files[i].path :
        i \in {k \in DOMAIN structure.files :
                 Cardinality({j \in DOMAIN structure.files : RankedBefore(j, k)})
                     < Get(options, "max_files", 60)}}

\* C27: the payload is bounded by max_files (a file count, not negative):
\* statistics.analyzed_files is at most min(total_files, max_files), and every
\* key of analyzed_files, and every file a content call asked for, is one of
\* the first max_files candidates of the ranked order.
C27_PayloadBoundedByMaxFiles ==
    (StartedFetch /\ ref.matched) =>
        /\ Stats.analyzed_files <= Min(Stats.total_files, Get(options, "max_files", 60))
        /\ DOMAIN structure.analyzed_files \subseteq RankedPrefix
        /\ Range(Paths(RawCalls)) \subseteq RankedPrefix
        /\ pc = "done" => Range(Paths(RawCalls)) = RankedPrefix

\* seven candidates, max_files 2, smaller files first: the two priority files
\* are fetched, Dockerfile before package.json, and nothing else
C27_Witness ==
    /\ StartedFetch
    /\ pc = "done"
    /\ result.kind = "value"
    /\ options.max_files = 2
    /\ ~Get(options, "focus_large_files", TRUE)
    /\ result.value.statistics.total_files = 7
    /\ result.value.statistics.analyzed_files = 2
    /\ DOMAIN result.value.analyzed_files = {"Dockerfile", "package.json"}
    /\ Paths(RawCalls) = <<"Dockerfile", "package.json">>

=============================================================================
